---- MODULE Spec2Model ----
(***************************************************************************)
(* Model of hangar_tui: the CLAUDE.md section parser / serializer          *)
(* (services/claude_config.py), the config screen that edits it (app.py),  *)
(* the todo model (models.py), the todo store (services/todos.py), the     *)
(* todo screen (app.py), the services that run external commands          *)
(* (services/git.py, services/tmux.py, services/github.py), and the        *)
(* dashboard's project list, view toggle and move (app.py).                *)
(*                                                                         *)
(* A text is a sequence of one-character strings.  A line is a text        *)
(* without NL.                                                             *)
(***************************************************************************)
EXTENDS Integers, Sequences, FiniteSets, TLC

VARIABLES
    file,       \* CLAUDE.md on disk: [kind, text]
    preamble,   \* ConfigScreen.preamble / the first component parse returns
    sections,   \* ConfigScreen.sections / the second component parse returns
    table,      \* rows of the config screen's DataTable, as last refreshed
    screen,     \* config screen: "closed", "mounted" or "crashed"
    modal,      \* the input modal a screen has pushed: [kind, row]
    nOps,       \* handlers that changed a screen's list so far
    nFail,      \* writes that failed so far
    lastOp,     \* the last handler that ran and what it reported
    docs,       \* history: the Documents parse returned, in order
    outs,       \* history: the texts save_claude_md wrote, in order
    todoFiles,  \* per project name, its todo record on disk
    todos,      \* TodoScreen.todos
    todoScreen, \* todo screen: [state, project], state "closed", "mounted" or "crashed"
    trail,      \* history: [row, seen], the statuses the todo at row had before
                \* each of its latest consecutive toggles
    dash,       \* history: the selected project's dashboard row as refreshed since the
                \* todo screen was last opened: [state, todo_count, todo_str]
    proc,       \* the service call in progress: [fn, pc, waiting]
    issued,     \* history: the external commands the call issued, with their outcomes
    ret,        \* what the last service call returned: [fn, raised, value]
    roots,      \* the directories ~/Hangar and ~/Stash: per root and name, the
                \* project directory of that name, if any
    app         \* HangarApp: [state, viewing_stash, title, projects, notice, subject]

vars == <<file, preamble, sections, table, screen, modal, nOps, nFail, lastOp, docs, outs,
          todoFiles, todos, todoScreen, trail, dash, proc, issued, ret, roots, app>>

docVars == <<file, preamble, sections, table, screen, docs, outs>>
todoVars == <<todoFiles, todos, todoScreen, trail>>
toolVars == <<proc, issued, ret>>
appVars == <<roots, app>>

----------------------------------------------------------------------------
(* Characters *)

HASH == "#"
SP == " "
NL == "\n"
LETTER == "a"
FENCE == "~"

\* the characters Python's \s and str.strip() treat as whitespace, among
\* those of the model's alphabet
Whitespace == {SP, NL}

\* re.match(r'^(#{1,6})...'): the longest '#' run a header may have
MaxLevel == 6

----------------------------------------------------------------------------
(* Bounds *)

MaxLines == 3       \* lines of a generated document
MaxPad == 2         \* whitespace characters after the '#' run of a generated line
MaxPasses == 2      \* parse/save passes of the round-trip pipeline
MaxOps == 2         \* handlers that add, edit or delete, per behaviour
MaxFail == 1        \* writes that fail, per behaviour
MaxTodos == 2       \* todos in one list

----------------------------------------------------------------------------
(* Text helpers *)

Rep(c, n) == [i \in 1..n |-> c]

Max(S) == CHOOSE x \in S : \A y \in S : y <= x
Min(S) == CHOOSE x \in S : \A y \in S : x <= y

\* str.split("\n"): the pieces between separators; "" splits into [""]
RECURSIVE split(_)
split(text) ==
    LET nls == {i \in 1..Len(text) : text[i] = NL}
    IN IF nls = {} THEN <<text>>
       ELSE LET k == Min(nls)
            IN <<SubSeq(text, 1, k - 1)>> \o split(SubSeq(text, k + 1, Len(text)))

\* "\n".join(lines)
RECURSIVE join(_)
join(lines) ==
    IF lines = <<>> THEN <<>>
    ELSE IF Len(lines) = 1 THEN lines[1]
    ELSE lines[1] \o <<NL>> \o join(Tail(lines))

\* str.strip(): drops every leading and trailing whitespace character
strip(s) ==
    LET keep == {i \in 1..Len(s) : s[i] \notin Whitespace}
    IN IF keep = {} THEN <<>> ELSE SubSeq(s, Min(keep), Max(keep))

\* re.match(r'^(#{1,6})\s+(.+)$', line): every way the pattern can match is a
\* pair <<k, w>> (k '#', then w whitespace, then at least one character that is
\* not a newline, up to the end); the greedy quantifiers pick the largest k and
\* then the largest w.
header_match(line) ==
    LET ways == {kw \in (1..MaxLevel) \X (1..Len(line)) :
                    /\ kw[1] + kw[2] < Len(line)
                    /\ \A i \in 1..kw[1] : line[i] = HASH
                    /\ \A i \in (kw[1] + 1)..(kw[1] + kw[2]) : line[i] \in Whitespace
                    /\ \A i \in (kw[1] + kw[2] + 1)..Len(line) : line[i] # NL}
    IN IF ways = {} THEN [matched |-> FALSE, group1 |-> <<>>, group2 |-> <<>>]
       ELSE LET k == Max({kw[1] : kw \in ways})
                w == Max({kw[2] : kw \in {x \in ways : x[1] = k}})
            IN [matched |-> TRUE,
                group1 |-> SubSeq(line, 1, k),
                group2 |-> SubSeq(line, k + w + 1, Len(line))]

----------------------------------------------------------------------------
(* services/claude_config.py *)

ConfigSection(title, content, level) ==
    [title |-> title, content |-> content, level |-> level]

\* ConfigSection.to_markdown
to_markdown(section) ==
    Rep(HASH, section.level) \o <<SP>> \o section.title \o <<NL, NL>> \o section.content

\* the state of the loop of parse_claude_md before any line
ParseStart ==
    [preamble_lines |-> <<>>, sections |-> <<>>, open |-> FALSE,
     title |-> <<>>, level |-> 0, current_content |-> <<>>]

\* "Save previous section if exists" / "Save last section"
CloseSection(st) ==
    IF st.open
    THEN Append(st.sections,
                ConfigSection(st.title, strip(join(st.current_content)), st.level))
    ELSE st.sections

\* one iteration of "for line in lines"
ParseLine(st, line) ==
    LET header_match_ == header_match(line)
    IN IF header_match_.matched
       THEN [st EXCEPT !.sections = CloseSection(st),
                       !.open = TRUE,
                       !.level = Len(header_match_.group1),
                       !.title = strip(header_match_.group2),
                       !.current_content = <<>>]
       ELSE IF ~st.open
       THEN [st EXCEPT !.preamble_lines = Append(@, line)]
       ELSE [st EXCEPT !.current_content = Append(@, line)]

RECURSIVE ParseLoop(_, _)
ParseLoop(st, lines) ==
    IF lines = <<>> THEN st ELSE ParseLoop(ParseLine(st, Head(lines)), Tail(lines))

\* parse_text without "Save last section"
parse_text_DropLast(text) ==
    LET st == ParseLoop(ParseStart, split(text))
    IN <<strip(join(st.preamble_lines)), st.sections>>

\* parse_claude_md on the text read from the file: <<preamble, sections>>
parse_text(text) ==
    LET st == ParseLoop(ParseStart, split(text))
    IN <<strip(join(st.preamble_lines)), CloseSection(st)>>

\* parse_claude_md without "if not path.exists()"
parse_claude_md_NoExistsCheck(f) ==
    IF f.kind = "text" THEN [raised |-> FALSE, doc |-> parse_text(f.text)]
    ELSE [raised |-> TRUE, doc |-> <<<<>>, <<>>>>]

\* parse_claude_md: a missing file is the empty Document; a file that cannot
\* be read makes path.read_text() raise
parse_claude_md(f) ==
    IF f.kind = "missing" THEN [raised |-> FALSE, doc |-> <<<<>>, <<>>>>]
    ELSE IF f.kind = "unreadable" THEN [raised |-> TRUE, doc |-> <<<<>>, <<>>>>]
    ELSE [raised |-> FALSE, doc |-> parse_text(f.text)]

\* the text save_claude_md builds: "\n\n".join(parts) + "\n"
RECURSIVE JoinParts(_)
JoinParts(parts) ==
    IF parts = <<>> THEN <<>>
    ELSE IF Len(parts) = 1 THEN parts[1]
    ELSE parts[1] \o <<NL, NL>> \o JoinParts(Tail(parts))

serialize(pre, secs) ==
    LET parts == (IF pre # <<>> THEN <<pre>> ELSE <<>>)
                 \o [i \in 1..Len(secs) |-> to_markdown(secs[i])]
    IN JoinParts(parts) \o <<NL>>

TextFile(text) == [kind |-> "text", text |-> text]

\* The files save_claude_md can leave behind.  path.write_text opens the file
\* for writing (truncating it) and writes the text: when it succeeds the file
\* holds the text; when it raises the file is as before (the open failed) or
\* empty (the write failed after the truncation).
WriteOutcomes(f, text) ==
    {[ok |-> TRUE, file |-> TextFile(text)],
     [ok |-> FALSE, file |-> f],
     [ok |-> FALSE, file |-> TextFile(<<>>)]}

\* the writes that can still fail are bounded
MayFail(ok) == ok \/ nFail < MaxFail
Failed(ok) == IF ok THEN nFail ELSE nFail + 1

----------------------------------------------------------------------------
(* models.py: TodoStatus and Todo *)

\* class TodoStatus(str, Enum): member name |-> value
TodoStatusValue ==
    [PENDING |-> <<"p", "e", "n", "d", "i", "n", "g">>,
     IN_PROGRESS |-> <<"i", "n", "_", "p", "r", "o", "g", "r", "e", "s", "s">>,
     COMPLETED |-> <<"c", "o", "m", "p", "l", "e", "t", "e", "d">>]

TodoStatusNames == DOMAIN TodoStatusValue

Todo(content, status) == [content |-> content, status |-> status]

\* Todo.cycle_status with the successor at distance 2 instead of 1
cycle_status_Backwards(todo) ==
    LET cycle == <<"PENDING", "IN_PROGRESS", "COMPLETED">>
        current_idx == (CHOOSE i \in 1..Len(cycle) : cycle[i] = todo.status) - 1
    IN [todo EXCEPT !.status = cycle[((current_idx + 2) % Len(cycle)) + 1]]

\* Todo.cycle_status (cycle is indexed from 1 here, current_idx from 0 as in
\* the source)
cycle_status(todo) ==
    LET cycle == <<"PENDING", "IN_PROGRESS", "COMPLETED">>
        current_idx == (CHOOSE i \in 1..Len(cycle) : cycle[i] = todo.status) - 1
    IN [todo EXCEPT !.status = cycle[((current_idx + 1) % Len(cycle)) + 1]]

\* JSON values: t is the type; s the characters of a string, a the elements
\* of an array, m the members of an object
JValue(t, s, a, m) == [t |-> t, s |-> s, a |-> a, m |-> m]
JNull == JValue("null", <<>>, <<>>, <<>>)
JNumber == JValue("number", <<>>, <<>>, <<>>)
JString(s) == JValue("string", s, <<>>, <<>>)
JArray(a) == JValue("array", <<>>, a, <<>>)
JObject(m) == JValue("object", <<>>, <<>>, m)

\* a to_dict that leaves the status out
to_dict_NoStatus(todo) ==
    JObject([content |-> JString(todo.content)])

\* Todo.to_dict
to_dict(todo) ==
    JObject([content |-> JString(todo.content),
             status |-> JString(TodoStatusValue[todo.status])])

\* Todo.from_dict: data["content"] raises TypeError when data is no dict and
\* KeyError when the key is absent; TodoStatus(value) raises ValueError when
\* no member has that value
from_dict(data) ==
    IF data.t # "object" THEN [exc |-> "TypeError", todo |-> Todo(<<>>, "PENDING")]
    ELSE IF "content" \notin DOMAIN data.m THEN [exc |-> "KeyError", todo |-> Todo(<<>>, "PENDING")]
    ELSE LET value == IF "status" \in DOMAIN data.m THEN data.m.status
                      ELSE JString(TodoStatusValue.PENDING)
             members == {n \in TodoStatusNames :
                            value.t = "string" /\ TodoStatusValue[n] = value.s}
         IN IF members = {} THEN [exc |-> "ValueError", todo |-> Todo(<<>>, "PENDING")]
            ELSE [exc |-> "none",
                  todo |-> Todo(data.m.content.s, CHOOSE n \in members : TRUE)]

----------------------------------------------------------------------------
(* services/todos.py *)

Projects == {"p", "q"}

NoRecord == [kind |-> "missing", data |-> JNull]
JsonRecord(data) == [kind |-> "json", data |-> data]

\* [Todo.from_dict(item) for item in items]: the first exception ends it
RECURSIVE FromDicts(_)
FromDicts(items) ==
    IF items = <<>> THEN [exc |-> "none", todos |-> <<>>]
    ELSE LET first == from_dict(Head(items))
         IN IF first.exc # "none" THEN [exc |-> first.exc, todos |-> <<>>]
            ELSE LET rest == FromDicts(Tail(items))
                 IN IF rest.exc # "none" THEN rest
                    ELSE [exc |-> "none", todos |-> <<first.todo>> \o rest.todos]

\* iterating the value of data.get("items", []): the elements of a list, the
\* keys of a dict, the characters of a string; anything else is not iterable
Iterate(value) ==
    IF value.t = "array" THEN [exc |-> "none", items |-> value.a]
    ELSE IF value.t = "object"
    THEN [exc |-> "none", items |-> [i \in 1..Cardinality(DOMAIN value.m) |-> JString(<<>>)]]
    ELSE IF value.t = "string"
    THEN [exc |-> "none", items |-> [i \in 1..Len(value.s) |-> JString(<<value.s[i]>>)]]
    ELSE [exc |-> "TypeError", items |-> <<>>]

\* the exception, if any, that reaches "except (json.JSONDecodeError, KeyError,
\* IOError)" in load_todos, and the list built when there is none
LoadBody(record) ==
    IF record.kind = "unreadable" THEN [exc |-> "IOError", todos |-> <<>>]
    ELSE IF record.kind = "notutf8" THEN [exc |-> "UnicodeDecodeError", todos |-> <<>>]
    ELSE IF record.kind = "garbage" THEN [exc |-> "JSONDecodeError", todos |-> <<>>]
    ELSE IF record.data.t # "object" THEN [exc |-> "AttributeError", todos |-> <<>>]
    ELSE LET it == Iterate(IF "items" \in DOMAIN record.data.m
                           THEN record.data.m.items ELSE JArray(<<>>))
         IN IF it.exc # "none" THEN [exc |-> it.exc, todos |-> <<>>]
            ELSE FromDicts(it.items)

\* load_todos: [] for a missing file and for the three exceptions it catches;
\* any other exception propagates
load_todos(record) ==
    IF record.kind = "missing" THEN [raised |-> FALSE, todos |-> <<>>]
    ELSE LET r == LoadBody(record)
         IN IF r.exc = "none" THEN [raised |-> FALSE, todos |-> r.todos]
            ELSE IF r.exc \in {"JSONDecodeError", "KeyError", "IOError"}
            THEN [raised |-> FALSE, todos |-> <<>>]
            ELSE [raised |-> TRUE, todos |-> <<>>]

\* a save_todos that reports success without writing the record
save_todos_NoWrite(record, list) ==
    {[result |-> "True", record |-> record]}

\* save_todos: TODOS_DIR.mkdir is outside the try, so its failure propagates;
\* an IOError of open leaves the record as it was, one of the write leaves a
\* truncated record; otherwise the record holds {"items": [...]}
save_todos(record, list) ==
    {[result |-> "True",
      record |-> JsonRecord(JObject([items |-> JArray([i \in 1..Len(list) |-> to_dict(list[i])])]))],
     [result |-> "False", record |-> record],
     [result |-> "False", record |-> [kind |-> "garbage", data |-> JNull]],
     [result |-> "raised", record |-> record]}

\* count_pending_todos: sum(1 for t in load_todos(name) if t.status !=
\* TodoStatus.COMPLETED); an exception of load_todos propagates
count_pending_todos(record) ==
    LET r == load_todos(record)
    IN [raised |-> r.raised,
        count |-> Cardinality({i \in 1..Len(r.todos) : r.todos[i].status # "COMPLETED"})]

----------------------------------------------------------------------------
(* Inputs *)

\* lines of generated documents: blank, indented, with trailing whitespace,
\* header-like in several ways, and a code fence
CoreLines ==
    {<<>>, <<SP>>, <<LETTER>>, <<SP, LETTER>>, <<LETTER, SP>>,
     <<HASH, SP, LETTER>>, <<HASH, HASH, SP, LETTER>>, <<HASH, SP, SP>>,
     <<SP, HASH, SP, LETTER>>, <<HASH, LETTER>>, <<HASH>>,
     <<HASH, SP, LETTER, SP>>, <<FENCE, FENCE, FENCE>>}

\* single lines with every '#' run up to one more than a header allows
RichLines ==
    {Rep(HASH, h) \o Rep(SP, w) \o b \o Rep(SP, t) :
        h \in 0..(MaxLevel + 1), w \in 0..MaxPad,
        b \in {<<>>, <<LETTER>>, <<LETTER, SP, HASH>>}, t \in 0..1}

RECURSIVE LinesUpTo(_)
LinesUpTo(n) ==
    IF n = 0 THEN {<<>>}
    ELSE LET shorter == LinesUpTo(n - 1)
         IN shorter \cup {Append(ls, l) : ls \in shorter, l \in CoreLines}

Texts == {join(ls) : ls \in LinesUpTo(MaxLines)} \cup RichLines

Files ==
    {[kind |-> "missing", text |-> <<>>], [kind |-> "unreadable", text |-> <<>>]}
    \cup {TextFile(t) : t \in Texts}

NoOp == [op |-> "none", ok |-> TRUE]
NoModal == [kind |-> "none", row |-> 0]
NoTrail == [row |-> 0, seen |-> <<>>]
NoDash == [state |-> "none", todo_count |-> 0, todo_str |-> <<>>]
Idle == [fn |-> "none", project |-> "p", pc |-> 0, hung |-> FALSE]
NoRet == [fn |-> "none", project |-> "p", raised |-> FALSE, value |-> <<>>, notice |-> "none"]

\* HangarApp.__init__
NewApp == [state |-> "new", viewing_stash |-> FALSE, title |-> "Hangar", projects |-> <<>>,
           notice |-> "none", subject |-> "none"]

\* the two roots, and a root without directories; a project directory is the
\* sequence of the projects it holds: itself, then the one nested in it under
\* its own name, and so on
Roots == {"Hangar", "Stash"}
Names == {".claude", "p", "q"}
NoDir == <<>>
EmptyRoots == [r \in Roots |-> [n \in Names |-> NoDir]]

----------------------------------------------------------------------------
(* The round-trip pipeline: parse, save what was parsed, parse again, ... *)

InitCommon ==
    /\ preamble = <<>>
    /\ sections = <<>>
    /\ table = <<>>
    /\ screen = "closed"
    /\ modal = NoModal
    /\ nOps = 0
    /\ nFail = 0
    /\ lastOp = NoOp
    /\ docs = <<>>
    /\ outs = <<>>
    /\ todos = <<>>
    /\ todoScreen = [state |-> "closed", project |-> "p"]
    /\ trail = NoTrail
    /\ dash = NoDash
    /\ proc = Idle
    /\ issued = <<>>
    /\ ret = NoRet
    /\ app = NewApp

InitRoundTrip ==
    /\ file \in Files
    /\ todoFiles = [k \in Projects |-> NoRecord]
    /\ roots = EmptyRoots
    /\ InitCommon

\* preamble, sections = parse_claude_md()
Parse ==
    /\ Len(docs) < MaxPasses
    /\ Len(docs) = Len(outs)
    /\ LET r == parse_claude_md(file)
       IN /\ ~r.raised
          /\ preamble' = r.doc[1]
          /\ sections' = r.doc[2]
          /\ docs' = Append(docs, r.doc)
          /\ lastOp' = [op |-> "parse", ok |-> TRUE]
    /\ UNCHANGED <<file, table, screen, modal, nOps, nFail, outs, todoVars, dash, toolVars, appVars>>

\* parse_claude_md() on a file that cannot be read: the exception propagates
ParseRaises ==
    /\ docs = <<>>
    /\ lastOp = NoOp
    /\ parse_claude_md(file).raised
    /\ lastOp' = [op |-> "parse", ok |-> FALSE]
    /\ UNCHANGED <<docVars, modal, nOps, nFail, todoVars, dash, toolVars, appVars>>

\* save_claude_md(preamble, sections)
Save ==
    /\ Len(outs) < Len(docs)
    /\ \E w \in WriteOutcomes(file, serialize(preamble, sections)) :
          /\ MayFail(w.ok)
          /\ nFail' = Failed(w.ok)
          /\ file' = w.file
          /\ lastOp' = [op |-> "save", ok |-> w.ok]
          /\ outs' = IF w.ok THEN Append(outs, w.file.text) ELSE outs
    /\ UNCHANGED <<preamble, sections, table, screen, modal, nOps, docs, todoVars, dash, toolVars, appVars>>

NextRoundTrip == Parse \/ ParseRaises \/ Save

SpecRoundTrip == InitRoundTrip /\ [][NextRoundTrip]_vars

----------------------------------------------------------------------------
(* app.py: ConfigScreen and ConfigEditScreen *)

\* _refresh_table cuts the preview of a section's content at this length
PreviewLen == 60

ReplaceNL(s) == [i \in 1..Len(s) |-> IF s[i] = NL THEN SP ELSE s[i]]

\* ConfigScreen._refresh_table: one row (level_str, title, preview) per section
Rows(secs) ==
    [i \in 1..Len(secs) |->
        [level_str |-> Rep(HASH, secs[i].level),
         title |-> secs[i].title,
         preview |-> IF Len(secs[i].content) > PreviewLen
                     THEN ReplaceNL(SubSeq(secs[i].content, 1, PreviewLen)) \o <<".", ".", ".">>
                     ELSE ReplaceNL(secs[i].content)]]

\* what the user may have typed into the edit modal
TitleInputs == {<<>>, <<SP>>, <<"b">>, <<SP, "b", SP>>}
LevelInputs ==
    {[digits |-> FALSE, n |-> 0]} \cup {[digits |-> TRUE, n |-> n] : n \in {0, 1, 3, MaxLevel + 1}}
ContentInputs ==
    {<<>>, <<LETTER>>, <<LETTER, NL>>, <<SP, LETTER>>, <<HASH, SP, LETTER>>}

\* ConfigEditScreen.action_save: the modal is dismissed with (title, content,
\* level) when the trimmed title is not empty and the level is an integer in
\* 1..6; otherwise it notifies and stays open
action_save(titleInput, levelInput, content) ==
    LET title == strip(titleInput)
    IN IF title = <<>> THEN [dismissed |-> FALSE, result |-> ConfigSection(<<>>, <<>>, 0)]
       ELSE IF ~levelInput.digits \/ ~(1 <= levelInput.n /\ levelInput.n <= MaxLevel)
       THEN [dismissed |-> FALSE, result |-> ConfigSection(<<>>, <<>>, 0)]
       ELSE [dismissed |-> TRUE, result |-> ConfigSection(title, content, levelInput.n)]

RemoveAt(seq, i) == SubSeq(seq, 1, i - 1) \o SubSeq(seq, i + 1, Len(seq))

\* the documents the config screen is opened on
ConfigFiles ==
    {[kind |-> "missing", text |-> <<>>], [kind |-> "unreadable", text |-> <<>>]}
    \cup {TextFile(join(ls)) : ls \in LinesUpTo(1)}
    \cup {TextFile(<<LETTER, NL, NL, HASH, SP, LETTER, NL, NL, LETTER, NL>>)}

InitConfig ==
    /\ file \in ConfigFiles
    /\ todoFiles = [k \in Projects |-> NoRecord]
    /\ roots = EmptyRoots
    /\ InitCommon

\* ConfigScreen.on_mount
OnMount ==
    /\ screen = "closed"
    /\ LET r == parse_claude_md(file)
       IN IF r.raised
          THEN /\ screen' = "crashed"
               /\ lastOp' = [op |-> "mount", ok |-> FALSE]
               /\ UNCHANGED <<preamble, sections, table>>
          ELSE /\ screen' = "mounted"
               /\ preamble' = r.doc[1]
               /\ sections' = r.doc[2]
               /\ table' = Rows(sections')
               /\ lastOp' = [op |-> "mount", ok |-> TRUE]
    /\ UNCHANGED <<file, modal, nOps, nFail, docs, outs, todoVars, dash, toolVars, appVars>>

\* ConfigScreen.action_close; the next opening builds a new screen
ActionClose ==
    /\ screen = "mounted"
    /\ modal = NoModal
    /\ screen' = "closed"
    /\ preamble' = <<>>
    /\ sections' = <<>>
    /\ table' = <<>>
    /\ lastOp' = [op |-> "close", ok |-> TRUE]
    /\ UNCHANGED <<file, modal, nOps, nFail, docs, outs, todoVars, dash, toolVars, appVars>>

\* ConfigScreen.action_add: pushes the edit modal
ActionAdd ==
    /\ screen = "mounted"
    /\ modal = NoModal
    /\ nOps < MaxOps
    /\ modal' = [kind |-> "add", row |-> 0]
    /\ lastOp' = [op |-> "open_add", ok |-> TRUE]
    /\ UNCHANGED <<file, preamble, sections, table, screen, nOps, nFail, docs, outs, todoVars, dash, toolVars, appVars>>

\* ConfigScreen.action_edit: pushes the edit modal for the row under the
\* cursor (rows are numbered from 1 here) when that row is a section
ActionEdit ==
    /\ screen = "mounted"
    /\ modal = NoModal
    /\ nOps < MaxOps
    /\ \E row_idx \in 1..Len(table) :
          /\ row_idx <= Len(sections)
          /\ modal' = [kind |-> "edit", row |-> row_idx]
    /\ lastOp' = [op |-> "open_edit", ok |-> TRUE]
    /\ UNCHANGED <<file, preamble, sections, table, screen, nOps, nFail, docs, outs, todoVars, dash, toolVars, appVars>>

\* ConfigEditScreen.action_cancel: dismiss(None); the callbacks ignore None
ModalCancel ==
    /\ modal.kind \in {"add", "edit"}
    /\ modal' = NoModal
    /\ lastOp' = [op |-> "cancel", ok |-> TRUE]
    /\ UNCHANGED <<file, preamble, sections, table, screen, nOps, nFail, docs, outs, todoVars, dash, toolVars, appVars>>

\* ConfigScreen._save and what follows it in each handler: the table is
\* refreshed only when save_claude_md returned True
SaveAndRefresh(op, secs) ==
    \E w \in WriteOutcomes(file, serialize(preamble, secs)) :
        /\ MayFail(w.ok)
        /\ nFail' = Failed(w.ok)
        /\ file' = w.file
        /\ sections' = secs
        /\ table' = IF w.ok THEN Rows(secs) ELSE table
        /\ lastOp' = [op |-> op, ok |-> w.ok]

\* ConfigEditScreen.action_save dismissing into ConfigScreen._on_add_complete
OnAddComplete ==
    /\ modal.kind = "add"
    /\ \E t \in TitleInputs, l \in LevelInputs, c \in ContentInputs :
          LET r == action_save(t, l, c)
          IN /\ r.dismissed
             /\ SaveAndRefresh("add", Append(sections, r.result))
    /\ modal' = NoModal
    /\ nOps' = nOps + 1
    /\ UNCHANGED <<preamble, screen, docs, outs, todoVars, dash, toolVars, appVars>>

\* ConfigEditScreen.action_save dismissing into ConfigScreen._on_edit_complete
OnEditComplete ==
    /\ modal.kind = "edit"
    /\ modal.row <= Len(sections)
    /\ \E t \in TitleInputs, l \in LevelInputs, c \in ContentInputs :
          LET r == action_save(t, l, c)
          IN /\ r.dismissed
             /\ SaveAndRefresh("edit", [sections EXCEPT ![modal.row] = r.result])
    /\ modal' = NoModal
    /\ nOps' = nOps + 1
    /\ UNCHANGED <<preamble, screen, docs, outs, todoVars, dash, toolVars, appVars>>

\* ConfigScreen.action_delete
ActionDelete ==
    /\ screen = "mounted"
    /\ modal = NoModal
    /\ nOps < MaxOps
    /\ \E row_idx \in 1..Len(table) :
          /\ row_idx <= Len(sections)
          /\ SaveAndRefresh("delete", RemoveAt(sections, row_idx))
    /\ nOps' = nOps + 1
    /\ UNCHANGED <<preamble, screen, modal, docs, outs, todoVars, dash, toolVars, appVars>>

NextConfig ==
    \/ OnMount
    \/ ActionClose
    \/ ActionAdd
    \/ ActionEdit
    \/ ModalCancel
    \/ OnAddComplete
    \/ OnEditComplete
    \/ ActionDelete

SpecConfig == InitConfig /\ [][NextConfig]_vars

----------------------------------------------------------------------------
(* app.py: TodoScreen and TodoInputScreen *)

\* the statuses Toggle remembers per todo: one full cycle
CycleLen == 3

\* items a stored record may hold
StoredItems ==
    {to_dict(Todo(<<LETTER>>, "PENDING")),
     to_dict(Todo(<<LETTER>>, "COMPLETED")),
     JObject([content |-> JString(<<LETTER>>)]),
     JObject([content |-> JString(<<LETTER>>), status |-> JString(<<"d", "o", "n", "e">>)]),
     JObject([status |-> JString(TodoStatusValue.PENDING)]),
     JString(<<LETTER>>)}

RECURSIVE ItemsUpTo(_)
ItemsUpTo(n) ==
    IF n = 0 THEN {<<>>}
    ELSE LET shorter == ItemsUpTo(n - 1)
         IN shorter \cup {Append(is, i) : is \in shorter, i \in StoredItems}

\* the states of a project's todo file: no file, a file that cannot be opened,
\* bytes that are not UTF-8, text that is not JSON, and JSON of several shapes
StoredRecords ==
    {NoRecord,
     [kind |-> "unreadable", data |-> JNull],
     [kind |-> "notutf8", data |-> JNull],
     [kind |-> "garbage", data |-> JNull]}
    \cup {JsonRecord(d) : d \in {JArray(<<>>), JNull, JNumber, JObject(<<>>),
                                 JObject([items |-> JNull]), JObject([items |-> JObject(<<>>)]),
                                 JObject([items |-> JString(<<LETTER>>)])}}
    \cup {JsonRecord(JObject([items |-> JArray(is)])) : is \in ItemsUpTo(MaxTodos)}

\* the project the todo screen is opened for
SelectedProject == "p"

\* the record of the other project
OtherRecord == JsonRecord(JObject([items |-> JArray(<<to_dict(Todo(<<"b">>, "IN_PROGRESS"))>>)]))

\* what the user may have typed into the todo input
TodoInputs == {<<>>, <<SP>>, <<"c">>, <<SP, "c", SP>>}

InitTodo ==
    /\ file = [kind |-> "missing", text |-> <<>>]
    /\ \E r \in StoredRecords :
          todoFiles = [k \in Projects |-> IF k = SelectedProject THEN r ELSE OtherRecord]
    /\ roots = EmptyRoots
    /\ InitCommon

Digits == <<"0", "1", "2", "3", "4", "5", "6", "7", "8", "9">>

\* str(n) of a natural number: its decimal digits
RECURSIVE str(_)
str(n) == IF n < 10 THEN <<Digits[n + 1]>> ELSE Append(str(n \div 10), Digits[(n % 10) + 1])

\* the Todos cell of HangarApp._refresh_projects
todo_str(todo_count) == IF todo_count > 0 THEN str(todo_count) ELSE <<"-">>

\* HangarApp._refresh_projects, as far as the selected project's todo count
\* and Todos cell go; an exception of count_pending_todos ends the app
RefreshedRow(record) ==
    LET c == count_pending_todos(record)
    IN IF c.raised THEN [state |-> "crashed", todo_count |-> 0, todo_str |-> <<>>]
       ELSE [state |-> "shown", todo_count |-> c.count, todo_str |-> todo_str(c.count)]

\* TodoScreen.on_mount: an exception of load_todos ends the screen
TodoMount ==
    /\ todoScreen.state = "closed"
    /\ LET project == SelectedProject
           r == load_todos(todoFiles[project])
          IN IF r.raised
             THEN /\ todoScreen' = [state |-> "crashed", project |-> project]
                  /\ lastOp' = [op |-> "todo_mount", ok |-> FALSE]
                  /\ UNCHANGED <<todos, trail>>
             ELSE /\ todoScreen' = [state |-> "mounted", project |-> project]
                  /\ todos' = r.todos
                  /\ trail' = NoTrail
                  /\ lastOp' = [op |-> "todo_mount", ok |-> TRUE]
    /\ dash' = NoDash
    /\ UNCHANGED <<docVars, toolVars, appVars, modal, nOps, nFail, todoFiles>>

\* TodoScreen.action_close; HangarApp.action_todos gave the screen the
\* callback lambda _: self._refresh_projects(), which runs on the dismissal
TodoClose ==
    /\ todoScreen.state = "mounted"
    /\ modal = NoModal
    /\ todoScreen' = [todoScreen EXCEPT !.state = "closed"]
    /\ todos' = <<>>
    /\ trail' = NoTrail
    /\ dash' = RefreshedRow(todoFiles[SelectedProject])
    /\ lastOp' = [op |-> "todo_close", ok |-> dash'.state = "shown"]
    /\ UNCHANGED <<docVars, toolVars, appVars, modal, nOps, nFail, todoFiles>>

\* TodoScreen._save inside a handler: the result of save_todos is dropped; an
\* exception of save_todos ends the screen; the table is refreshed from todos
TodoSave(op, list) ==
    \E w \in save_todos(todoFiles[todoScreen.project], list) :
        /\ MayFail(w.result = "True")
        /\ nFail' = Failed(w.result = "True")
        /\ todoFiles' = [todoFiles EXCEPT ![todoScreen.project] = w.record]
        /\ todos' = list
        /\ todoScreen' = IF w.result = "raised"
                         THEN [todoScreen EXCEPT !.state = "crashed"] ELSE todoScreen
        /\ lastOp' = [op |-> op, ok |-> w.result = "True"]

Last(seq, n) == IF Len(seq) <= n THEN seq ELSE SubSeq(seq, Len(seq) - n + 1, Len(seq))

\* a handler that finds table.row_count == 0 and returns
TodoEmptyTable(op) ==
    /\ todos = <<>>
    /\ lastOp' = [op |-> op, ok |-> TRUE]
    /\ UNCHANGED <<nFail, todoVars>>

\* TodoScreen.action_toggle on the row under the cursor (rows from 1 here)
TodoToggle ==
    /\ todoScreen.state = "mounted"
    /\ modal = NoModal
    /\ \/ TodoEmptyTable("toggle_empty")
       \/ \E row_idx \in 1..Len(todos) :
             /\ TodoSave("toggle", [todos EXCEPT ![row_idx] = cycle_status(todos[row_idx])])
             /\ trail' = [row |-> row_idx,
                           seen |-> Last(Append(IF trail.row = row_idx THEN trail.seen ELSE <<>>,
                                                todos[row_idx].status), CycleLen)]
    /\ UNCHANGED <<docVars, toolVars, appVars, dash, modal, nOps>>

\* TodoScreen.action_delete
TodoDelete ==
    /\ todoScreen.state = "mounted"
    /\ modal = NoModal
    /\ \/ TodoEmptyTable("todo_delete_empty") /\ UNCHANGED nOps
       \/ /\ nOps < MaxOps
          /\ \E row_idx \in 1..Len(todos) :
                /\ TodoSave("todo_delete", RemoveAt(todos, row_idx))
                /\ trail' = IF trail.row = row_idx THEN NoTrail
                             ELSE IF trail.row > row_idx THEN [trail EXCEPT !.row = @ - 1]
                             ELSE trail
          /\ nOps' = nOps + 1
    /\ UNCHANGED <<docVars, toolVars, appVars, dash, modal>>

\* TodoScreen.action_add: pushes the input modal
TodoAdd ==
    /\ todoScreen.state = "mounted"
    /\ modal = NoModal
    /\ nOps < MaxOps
    /\ Len(todos) < MaxTodos
    /\ modal' = [kind |-> "todo_add", row |-> 0]
    /\ lastOp' = [op |-> "todo_open_add", ok |-> TRUE]
    /\ UNCHANGED <<docVars, toolVars, appVars, dash, nOps, nFail, todoVars>>

\* TodoScreen.action_edit: pushes the input modal for the row under the cursor
TodoEdit ==
    /\ todoScreen.state = "mounted"
    /\ modal = NoModal
    /\ nOps < MaxOps
    /\ \E row_idx \in 1..Len(todos) : modal' = [kind |-> "todo_edit", row |-> row_idx]
    /\ lastOp' = [op |-> "todo_open_edit", ok |-> TRUE]
    /\ UNCHANGED <<docVars, toolVars, appVars, dash, nOps, nFail, todoVars>>

\* TodoInputScreen.on_input_submitted: dismiss(event.value.strip() or None);
\* None is modelled as the empty text, which the callbacks treat alike
on_input_submitted(value) == strip(value)

\* TodoInputScreen.action_cancel, or a submission of blank text: the
\* callbacks do nothing
TodoModalNone ==
    /\ modal.kind \in {"todo_add", "todo_edit"}
    /\ modal' = NoModal
    /\ lastOp' = [op |-> "todo_cancel", ok |-> TRUE]
    /\ UNCHANGED <<docVars, toolVars, appVars, dash, nOps, nFail, todoVars>>

\* TodoInputScreen.on_input_submitted into TodoScreen._on_add_complete
TodoOnAddComplete ==
    /\ modal.kind = "todo_add"
    /\ \E value \in TodoInputs :
          LET content == on_input_submitted(value)
          IN /\ content # <<>>
             /\ TodoSave("todo_add", Append(todos, Todo(content, "PENDING")))
    /\ modal' = NoModal
    /\ nOps' = nOps + 1
    /\ UNCHANGED <<docVars, toolVars, appVars, dash, trail>>

\* TodoInputScreen.on_input_submitted into TodoScreen._on_edit_complete
TodoOnEditComplete ==
    /\ modal.kind = "todo_edit"
    /\ modal.row <= Len(todos)
    /\ \E value \in TodoInputs :
          LET content == on_input_submitted(value)
          IN /\ content # <<>>
             /\ TodoSave("todo_edit", [todos EXCEPT ![modal.row].content = content])
    /\ modal' = NoModal
    /\ nOps' = nOps + 1
    /\ UNCHANGED <<docVars, toolVars, appVars, dash, trail>>

NextTodo ==
    \/ TodoMount
    \/ TodoClose
    \/ TodoToggle
    \/ TodoDelete
    \/ TodoAdd
    \/ TodoEdit
    \/ TodoModalNone
    \/ TodoOnAddComplete
    \/ TodoOnEditComplete

SpecTodo == InitTodo /\ [][NextTodo]_vars

----------------------------------------------------------------------------
(* subprocess.run, and the services that run external commands with it:     *)
(* services/git.py, services/tmux.py, services/github.py                    *)

BAR == "|"

\* str.splitlines(): the lines of a text, without a last empty piece
splitlines(text) ==
    LET pieces == split(text)
    IN IF pieces[Len(pieces)] = <<>> THEN SubSeq(pieces, 1, Len(pieces) - 1) ELSE pieces

\* str.split("|", maxsplit)
RECURSIVE split_bar(_, _)
split_bar(line, maxsplit) ==
    LET bars == {i \in 1..Len(line) : line[i] = BAR}
    IN IF maxsplit = 0 \/ bars = {} THEN <<line>>
       ELSE LET k == Min(bars)
            IN <<SubSeq(line, 1, k - 1)>> \o split_bar(SubSeq(line, k + 1, Len(line)), maxsplit - 1)

\* the timeout argument of subprocess.run; NoTimeout when there is none
NoTimeout == 0
GitTimeout == 5
GhTimeout == 10

\* one call of subprocess.run: the tool and its subcommand, the project it is
\* run for, and the keyword arguments timeout, check and text
Command(tool, verb, project, timeout, check, text) ==
    [tool |-> tool, verb |-> verb, project |-> project,
     timeout |-> timeout, check |-> check, text |-> text]

\* what a command wrote to its standard output: text, bytes that are not text
\* in the locale's encoding, or text that is JSON (held as the value it denotes)
TextOut(t) == [kind |-> "text", text |-> t, data |-> JNull]
BytesOut == [kind |-> "bytes", text |-> <<>>, data |-> JNull]
JsonOut(d) == [kind |-> "json", text |-> <<>>, data |-> d]

\* what an external command does: the executable is missing, it exits with a
\* non-zero code, it never terminates, or it exits with code 0 and an output;
\* "running" stands for a command that has not finished yet
Outcome(kind, stdout) == [kind |-> kind, stdout |-> stdout]
Running == Outcome("running", TextOut(<<>>))

\* lines of git log --format=%H|%s|%ci|%an; "d" stands for an ISO date
GoodLine == <<"h", BAR, "m", BAR, "d", BAR, "n">>
LongHashLine == Rep("h", 8) \o <<BAR, "m", BAR, SP, "d", SP, BAR, "n">>
BadDateLine == <<"h", BAR, "m", BAR, "m", BAR, "n">>
ExtraBarLine == <<"h", BAR, "m", BAR, "d", BAR, "n", BAR, "n">>
ThreeFieldLine == <<"h", BAR, "m", BAR, "d">>
NoBarLine == <<"m">>

GitOutputs ==
    {TextOut(t) : t \in {<<>>, <<NL>>, <<SP>> \o GoodLine \o <<NL>>, LongHashLine \o <<NL>>,
                         BadDateLine \o <<NL>>, ExtraBarLine \o <<NL>>, ThreeFieldLine \o <<NL>>,
                         NoBarLine \o <<NL>>, GoodLine \o <<NL>> \o NoBarLine \o <<NL>>,
                         GoodLine \o <<NL>> \o BadDateLine \o <<NL>>}}
    \cup {BytesOut}

\* outputs of gh pr list --json ...
PrOutputs ==
    {JsonOut(d) : d \in {JArray(<<>>),
                         JArray(<<JObject([number |-> JNumber, title |-> JString(<<"t">>)])>>),
                         JNull, JObject(<<>>)}}
    \cup {TextOut(<<>>), TextOut(NoBarLine), BytesOut}

\* outputs of the four queries of get_git_info: the branch name, the
\* "%ci|%s" line of the last commit, the URL of origin, and the porcelain
\* status with one line per changed file
InfoOutputs(verb) ==
    {BytesOut} \cup
    {TextOut(t) : t \in
        CASE verb = "rev-parse" -> {<<"m", NL>>}
          [] verb = "log -1" -> {<<>>, <<"d", SP, BAR, SP, "m", NL>>, <<"m", BAR, "m", BAR, "m", NL>>,
                                 <<"m", NL>>}
          [] verb = "remote get-url" -> {<<"n", NL>>}
          [] verb = "status --porcelain" -> {<<>>, <<NL>>, <<SP, "m", SP, "n", NL>>,
                                             <<SP, "m", SP, "n", NL, "m", SP, SP, "n", NL>>}}

InfoVerbs == <<"rev-parse", "log -1", "remote get-url", "status --porcelain">>

Stdouts(cmd) ==
    IF cmd.tool = "git" /\ cmd.verb \in {InfoVerbs[i] : i \in 1..Len(InfoVerbs)}
    THEN InfoOutputs(cmd.verb)
    ELSE IF cmd.tool = "git" THEN GitOutputs
    ELSE IF cmd.tool = "gh" /\ cmd.verb = "pr list" THEN PrOutputs
    ELSE {TextOut(<<>>), BytesOut}

Outcomes(cmd) ==
    {Outcome(k, TextOut(<<>>)) : k \in {"missing", "nonzero", "hang"}}
    \cup {Outcome("exit0", out) : out \in Stdouts(cmd)}

\* subprocess.run(cmd, capture_output=True, ...) on a command that ends: the
\* exception it raises, or the returncode and stdout of the CompletedProcess.
\* A command that never terminates ends by TimeoutExpired (a call without a
\* timeout does not return for it: see Hang).
subprocess_run(cmd, outcome) ==
    LET result(exc, code) == [exc |-> exc, returncode |-> code, stdout |-> outcome.stdout]
    IN IF outcome.kind = "missing" THEN result("FileNotFoundError", 0)
       ELSE IF outcome.kind = "hang" THEN result("TimeoutExpired", 0)
       ELSE IF cmd.text /\ outcome.stdout.kind = "bytes" THEN result("UnicodeDecodeError", 0)
       ELSE IF outcome.kind = "nonzero"
       THEN (IF cmd.check THEN result("CalledProcessError", 1) ELSE result("none", 1))
       ELSE result("none", 0)

\* Optional[str]
None == [none |-> TRUE, s |-> <<>>]
Some(s) == [none |-> FALSE, s |-> s]

\* what a service function does after a command: go on to its next command,
\* return a value, or let an exception through
Continue == [done |-> FALSE, raised |-> FALSE, value |-> <<>>]
Return(value) == [done |-> TRUE, raised |-> FALSE, value |-> value]
Raise(value) == [done |-> TRUE, raised |-> TRUE, value |-> value]

\* run_git, from the result r of its subprocess.run
run_git(r) ==
    IF r.exc \in {"TimeoutExpired", "FileNotFoundError"} THEN Return(None)
    ELSE IF r.exc # "none" THEN Raise(None)
    ELSE IF r.returncode = 0 THEN Return(Some(strip(r.stdout.text)))
    ELSE Return(None)

IsoDates == {<<"d">>}
MaxSplit == 3
Fields == 4
HashLen == 7

\* datetime.fromisoformat(text), and datetime.now() on its ValueError
CommitDate(text) ==
    IF text \in IsoDates THEN [kind |-> "parsed", text |-> text] ELSE [kind |-> "now", text |-> <<>>]

\* the loop of get_recent_commits over output.splitlines()
RECURSIVE Commits(_)
Commits(lines) ==
    IF lines = <<>> THEN <<>>
    ELSE LET parts == split_bar(Head(lines), MaxSplit)
         IN (IF Len(parts) = Fields
             THEN <<[hash |-> SubSeq(parts[1], 1, Min({HashLen, Len(parts[1])})),
                     message |-> parts[2],
                     date |-> CommitDate(strip(parts[3])),
                     author |-> parts[4]]>>
             ELSE <<>>)
            \o Commits(Tail(lines))

\* get_recent_commits, from the result r of run_git's subprocess.run
get_recent_commits(r) ==
    LET output == run_git(r)
    IN IF output.raised THEN Raise(<<>>)
       ELSE IF output.value.none \/ output.value.s = <<>> THEN Return(<<>>)
       ELSE Return(Commits(splitlines(output.value.s)))

\* get_open_prs: json.loads(result.stdout) on exit code 0; every exception,
\* that of json.loads included, is caught
get_open_prs(r) ==
    IF r.exc # "none" THEN Return(JArray(<<>>))
    ELSE IF r.returncode = 0
    THEN (IF r.stdout.kind = "json" THEN Return(r.stdout.data) ELSE Return(JArray(<<>>)))
    ELSE Return(JArray(<<>>))

\* the projects whose directory holds a ".git" directory
GitDirs == {"p"}

\* GitInfo, and the one get_git_info returns for a path without ".git"
GitInfo(status, branch, last_commit_date, last_commit_message, remote_url, uncommitted_count) ==
    [status |-> status, branch |-> branch, last_commit_date |-> last_commit_date,
     last_commit_message |-> last_commit_message, remote_url |-> remote_url,
     uncommitted_count |-> uncommitted_count]
NoGitInfo == GitInfo("NO_GIT", None, None, None, None, 0)

\* get_git_info for a path with ".git", from the results of the subprocess.run
\* of its four run_git calls, none of which raised
get_git_info(results) ==
    LET branch == run_git(results[1]).value
        commit_info == run_git(results[2]).value
        parts == split_bar(commit_info.s, 1)
        parsed == ~commit_info.none /\ commit_info.s # <<>> /\ Len(parts) = 2
        remote_url == run_git(results[3]).value
        status_output == run_git(results[4]).value
        uncommitted_count == IF ~status_output.none /\ status_output.s # <<>>
                             THEN Len(splitlines(status_output.s)) ELSE 0
    IN GitInfo(IF uncommitted_count > 0 THEN "DIRTY" ELSE "CLEAN",
               branch,
               IF parsed /\ strip(parts[1]) \in IsoDates THEN Some(strip(parts[1])) ELSE None,
               IF parsed THEN Some(strip(parts[2])) ELSE None,
               remote_url,
               uncommitted_count)

\* an open_github that does not look at the exit code
open_github_AnyExit(r) ==
    IF r.exc \in {"TimeoutExpired", "FileNotFoundError"} THEN Return(FALSE)
    ELSE IF r.exc # "none" THEN Raise(FALSE)
    ELSE Return(TRUE)

\* open_github
open_github(r) ==
    IF r.exc \in {"TimeoutExpired", "FileNotFoundError"} THEN Return(FALSE)
    ELSE IF r.exc # "none" THEN Raise(FALSE)
    ELSE Return(r.returncode = 0)

\* the commands each service function runs, in the order of its code
GitCommand(verb, project) == Command("git", verb, project, GitTimeout, FALSE, TRUE)
TmuxCommand(verb, project) == Command("tmux", verb, project, NoTimeout, TRUE, FALSE)

open_in_tmux(project) ==
    <<TmuxCommand("new-window", project), TmuxCommand("split-window", project),
      TmuxCommand("select-pane", project), TmuxCommand("send-keys", project)>>
open_in_tmux_claude(project) ==
    <<TmuxCommand("new-window", project), TmuxCommand("send-keys", project)>>
open_in_tmux_lazygit(project) == <<TmuxCommand("new-window lazygit", project)>>
open_in_tmux_nvim(project) == <<TmuxCommand("new-window nvim", project)>>

TmuxLaunchers == {"open_in_tmux", "open_in_tmux_claude", "open_in_tmux_lazygit", "open_in_tmux_nvim"}
Functions == TmuxLaunchers \cup {"open_github", "run_git", "get_recent_commits", "get_open_prs",
                                 "get_git_info"}

Program(fn, project) ==
    CASE fn = "open_in_tmux" -> open_in_tmux(project)
      [] fn = "open_in_tmux_claude" -> open_in_tmux_claude(project)
      [] fn = "open_in_tmux_lazygit" -> open_in_tmux_lazygit(project)
      [] fn = "open_in_tmux_nvim" -> open_in_tmux_nvim(project)
      [] fn = "open_github" -> <<Command("gh", "repo view", project, GhTimeout, FALSE, FALSE)>>
      [] fn = "run_git" -> <<GitCommand("status", project)>>
      [] fn = "get_recent_commits" -> <<GitCommand("log", project)>>
      [] fn = "get_open_prs" -> <<Command("gh", "pr list", project, GhTimeout, FALSE, TRUE)>>
      [] fn = "get_git_info" -> [i \in 1..Len(InfoVerbs) |-> GitCommand(InfoVerbs[i], project)]

\* a launcher that goes on to its next command after a failed one
tmux_try_KeepGoing(r, last) ==
    IF r.exc = "FileNotFoundError" THEN Return(FALSE)
    ELSE IF r.exc \notin {"none", "CalledProcessError"} THEN Raise(FALSE)
    ELSE IF last THEN Return(TRUE)
    ELSE Continue

\* the try block of the four tmux launchers after one of its commands:
\* CalledProcessError and FileNotFoundError return False, "return True"
\* follows the last command
tmux_try(r, last) ==
    IF r.exc \in {"CalledProcessError", "FileNotFoundError"} THEN Return(FALSE)
    ELSE IF r.exc # "none" THEN Raise(FALSE)
    ELSE IF last THEN Return(TRUE)
    ELSE Continue

\* what function fn does with the result r of its pc-th command
AfterCommand(fn, project, pc, r) ==
    CASE fn \in TmuxLaunchers -> tmux_try(r, pc = Len(Program(fn, project)))
      [] fn = "open_github" -> open_github(r)
      [] fn = "run_git" -> run_git(r)
      [] fn = "get_recent_commits" -> get_recent_commits(r)
      [] fn = "get_open_prs" -> get_open_prs(r)
      [] fn = "get_git_info" ->
            \* an exception of a run_git call leaves get_git_info at once; the
            \* GitInfo is built after the last call from the results of all four
            IF run_git(r).raised THEN Raise(NoGitInfo)
            ELSE IF pc < Len(InfoVerbs) THEN Continue
            ELSE Return(get_git_info([i \in 1..Len(InfoVerbs) |->
                            IF i = pc THEN r ELSE subprocess_run(issued[i].cmd, issued[i].outcome)]))

\* the severity with which HangarApp.action_open_tmux / _claude / _lazygit /
\* _nvim notify the user of a launcher's result
notify(fn, after) ==
    IF fn \notin TmuxLaunchers \/ after.raised THEN "none"
    ELSE IF after.value THEN "information" ELSE "error"

InitTools ==
    /\ file = [kind |-> "missing", text |-> <<>>]
    /\ todoFiles = [k \in Projects |-> NoRecord]
    /\ roots = EmptyRoots
    /\ InitCommon

\* a handler or screen calls a service function for a project: the function
\* issues its first command and blocks on it
Call ==
    /\ proc = Idle
    /\ \E fn \in Functions, project \in Projects :
          /\ fn = "get_git_info" => project \in GitDirs
          /\ proc' = [fn |-> fn, project |-> project, pc |-> 1, hung |-> FALSE]
          /\ issued' = <<[cmd |-> Program(fn, project)[1], outcome |-> Running]>>
    /\ ret' = NoRet
    /\ UNCHANGED <<docVars, modal, nOps, nFail, lastOp, todoVars, dash, appVars>>

\* get_git_info for a path without a ".git" directory: it returns at once
GetGitInfoNoGit ==
    /\ proc = Idle
    /\ \E project \in Projects \ GitDirs :
          ret' = [fn |-> "get_git_info", project |-> project, raised |-> FALSE,
                  value |-> NoGitInfo, notice |-> "none"]
    /\ issued' = <<>>
    /\ UNCHANGED <<docVars, modal, nOps, nFail, lastOp, todoVars, dash, appVars, proc>>

\* the command the function blocks on ends, or its timeout expires; the
\* function issues its next command, returns or raises
Complete ==
    /\ proc.pc # 0
    /\ ~proc.hung
    /\ LET cmd == Program(proc.fn, proc.project)[proc.pc]
       IN \E outcome \in Outcomes(cmd) :
             /\ outcome.kind = "hang" => cmd.timeout # NoTimeout
             /\ LET after == AfterCommand(proc.fn, proc.project, proc.pc, subprocess_run(cmd, outcome))
                    ended == [issued EXCEPT ![proc.pc].outcome = outcome]
                IN IF after.done
                   THEN /\ proc' = Idle
                        /\ issued' = ended
                        /\ ret' = [fn |-> proc.fn, project |-> proc.project,
                                   raised |-> after.raised, value |-> after.value,
                                   notice |-> notify(proc.fn, after)]
                   ELSE /\ proc' = [proc EXCEPT !.pc = @ + 1]
                        /\ issued' = Append(ended, [cmd |-> Program(proc.fn, proc.project)[proc.pc + 1],
                                                    outcome |-> Running])
                        /\ ret' = ret
    /\ UNCHANGED <<docVars, modal, nOps, nFail, lastOp, todoVars, dash, appVars>>

\* the command never terminates and subprocess.run was given no timeout: the
\* call does not return and the handler stays blocked
Hang ==
    /\ proc.pc # 0
    /\ ~proc.hung
    /\ Program(proc.fn, proc.project)[proc.pc].timeout = NoTimeout
    /\ proc' = [proc EXCEPT !.hung = TRUE]
    /\ UNCHANGED <<docVars, modal, nOps, nFail, lastOp, todoVars, dash, appVars, issued, ret>>

NextTools ==
    \/ Call
    \/ GetGitInfoNoGit
    \/ Complete
    \/ Hang

SpecTools == InitTools /\ [][NextTools]_vars

----------------------------------------------------------------------------
(* The dashboard: HangarApp's project list, view toggle and move (app.py) *)

EXCLUDED_DIRS == {".claude", ".DS_Store", ".git"}

\* the order sorted() gives the names
NameOrder == <<".claude", "p", "q">>

\* HangarApp._get_current_path, and the root of the other view
_get_current_path(a) == IF a.viewing_stash THEN "Stash" ELSE "Hangar"
OtherRoot(a) == IF a.viewing_stash THEN "Hangar" ELSE "Stash"

\* HangarApp._refresh_projects, as far as the names go: the directories of the
\* root that are not excluded, sorted
_refresh_projects(root) ==
    SelectSeq(NameOrder, LAMBDA n : root[n] # NoDir /\ n \notin EXCLUDED_DIRS)

\* shutil.move(src, dest) with src = from/name and dest = to/name: it raises
\* and moves nothing, or it renames src to dest when there is no dest; when
\* dest is a directory already, the real destination is dest/name: src is
\* moved inside dest, unless dest/name exists, which raises shutil.Error
shutil_move(rs, from, to, name) ==
    LET src == rs[from][name]
        dest == rs[to][name]
    IN {[ok |-> FALSE, roots |-> rs]}
       \cup (IF dest = NoDir
             THEN {[ok |-> TRUE, roots |-> [rs EXCEPT ![from][name] = NoDir, ![to][name] = src]]}
             ELSE IF Len(dest) = 1
             THEN {[ok |-> TRUE, roots |-> [rs EXCEPT ![from][name] = NoDir, ![to][name] = dest \o src]]}
             ELSE {})

\* the directories the two roots may hold at the start: each project
\* directory holds one project, named after where it was first
InitMove ==
    /\ file = [kind |-> "missing", text |-> <<>>]
    /\ todoFiles = [k \in Projects |-> NoRecord]
    /\ \E hp \in {NoDir, <<"Hangar/p">>}, hq \in {NoDir, <<"Hangar/q">>},
          hc \in {NoDir, <<"Hangar/.claude">>},
          sp \in {NoDir, <<"Stash/p">>}, sq \in {NoDir, <<"Stash/q">>} :
          roots = [r \in Roots |-> [n \in Names |->
                      IF r = "Hangar" THEN (CASE n = "p" -> hp [] n = "q" -> hq [] OTHER -> hc)
                      ELSE (CASE n = "p" -> sp [] n = "q" -> sq [] OTHER -> NoDir)]]
    /\ InitCommon

\* HangarApp.on_mount
AppMount ==
    /\ app.state = "new"
    /\ app' = [app EXCEPT !.state = "running",
                          !.projects = _refresh_projects(roots[_get_current_path(app)])]
    /\ lastOp' = [op |-> "app_mount", ok |-> TRUE]
    /\ UNCHANGED <<docVars, modal, nOps, nFail, todoVars, dash, toolVars, roots>>

\* HangarApp.action_refresh
ActionRefresh ==
    /\ app.state = "running"
    /\ app' = [app EXCEPT !.projects = _refresh_projects(roots[_get_current_path(app)])]
    /\ lastOp' = [op |-> "refresh", ok |-> TRUE]
    /\ UNCHANGED <<docVars, modal, nOps, nFail, todoVars, dash, toolVars, roots>>

\* HangarApp.action_toggle_view
ActionToggleView ==
    /\ app.state = "running"
    /\ LET viewing_stash == ~app.viewing_stash
       IN app' = [app EXCEPT !.viewing_stash = viewing_stash,
                             !.title = IF viewing_stash THEN "Stash" ELSE "Hangar",
                             !.projects = _refresh_projects(roots[IF viewing_stash THEN "Stash" ELSE "Hangar"])]
    /\ lastOp' = [op |-> "toggle_view", ok |-> TRUE]
    /\ UNCHANGED <<docVars, modal, nOps, nFail, todoVars, dash, toolVars, roots>>

\* HangarApp.action_move_project on the row under the cursor: nothing without
\* a selected project; otherwise shutil.move, then the notification and the
\* refresh on success, the error notification on an exception
ActionMoveProject ==
    /\ app.state = "running"
    /\ \/ /\ app.projects = <<>>
          /\ lastOp' = [op |-> "move_none", ok |-> TRUE]
          /\ UNCHANGED <<roots, app>>
       \/ \E row_idx \in 1..Len(app.projects) :
             LET name == app.projects[row_idx]
             IN \E w \in shutil_move(roots, _get_current_path(app), OtherRoot(app), name) :
                   /\ roots' = w.roots
                   /\ app' = IF w.ok
                             THEN [app EXCEPT !.notice = "information", !.subject = name,
                                              !.projects = _refresh_projects(w.roots[_get_current_path(app)])]
                             ELSE [app EXCEPT !.notice = "error", !.subject = name]
                   /\ lastOp' = [op |-> "move", ok |-> w.ok]
    /\ UNCHANGED <<docVars, modal, nOps, nFail, todoVars, dash, toolVars>>

NextMove ==
    \/ AppMount
    \/ ActionRefresh
    \/ ActionToggleView
    \/ ActionMoveProject

SpecMove == InitMove /\ [][NextMove]_vars

----------------------------------------------------------------------------
(* Properties of the parser and the serializer, checked under SpecRoundTrip *)

\* the state right after the first parse: file is still the input
FirstParse == lastOp = [op |-> "parse", ok |-> TRUE] /\ Len(docs) = 1

InputLines == split(file.text)

\* the number of leading '#' of a line
LeadingHashes(line) ==
    LET other == {i \in 1..Len(line) : line[i] # HASH}
    IN IF other = {} THEN Len(line) ELSE Min(other) - 1

\* the positions of the lines the parser's pattern matches
HeaderIdx(lines) == {i \in 1..Len(lines) : header_match(lines[i]).matched}

\* the position of the k-th such line, and of the last line before the next one
NthHeader(lines, k) ==
    CHOOSE i \in HeaderIdx(lines) : Cardinality({j \in HeaderIdx(lines) : j < i}) = k - 1

SectionEnd(lines, k) ==
    IF k = Cardinality(HeaderIdx(lines)) THEN Len(lines) ELSE NthHeader(lines, k + 1) - 1

\* C1: parsing the text written from a parsed Document yields that Document
\* again: same preamble, same sections (title, content, level) in order.
C1_RoundTrip == Len(docs) >= 2 => docs[2] = docs[1]

\* C2: writing the re-parsed Document yields the same text as the first
\* write: serialize(parse(serialize(d))) = serialize(d).
C2_Idempotence == Len(outs) >= 2 => outs[2] = outs[1]

\* a header as the specification words it: 1 to 6 leading '#', immediately
\* followed by whitespace, then text that is not empty once trimmed
ClaimedHeader(line) ==
    LET h == LeadingHashes(line)
    IN /\ h \in 1..MaxLevel
       /\ Len(line) > h
       /\ line[h + 1] \in Whitespace
       /\ strip(SubSeq(line, h + 1, Len(line))) # <<>>

\* C4: a line opens a section iff it is 1..6 '#', whitespace, non-empty text;
\* the title is that text trimmed, never empty; the level is the '#' count.
C4_HeaderRecognition ==
    (FirstParse /\ file.kind = "text") =>
        LET hs == SelectSeq(InputLines, ClaimedHeader)
        IN /\ Len(sections) = Len(hs)
           /\ \A i \in 1..Len(sections) :
                 /\ sections[i].title # <<>>
                 /\ sections[i].title = strip(SubSeq(hs[i], LeadingHashes(hs[i]) + 1, Len(hs[i])))
                 /\ sections[i].level = LeadingHashes(hs[i])

IsBlank(line) == \A i \in 1..Len(line) : line[i] \in Whitespace

\* the lines joined with newline, without the leading and trailing blank lines
TrimBlankLines(lines) ==
    LET keep == {i \in 1..Len(lines) : ~IsBlank(lines[i])}
    IN IF keep = {} THEN <<>> ELSE join(SubSeq(lines, Min(keep), Max(keep)))

\* C5: preamble and section contents are the accumulated lines with only the
\* leading and trailing blank lines removed; non-blank lines are kept verbatim,
\* the indentation of the first one included.
C5_TrimBlankLinesOnly ==
    (FirstParse /\ file.kind = "text") =>
        LET lines == InputLines
            H == HeaderIdx(lines)
            first == IF H = {} THEN Len(lines) + 1 ELSE Min(H)
        IN /\ preamble = TrimBlankLines(SubSeq(lines, 1, first - 1))
           /\ Len(sections) = Cardinality(H)
           /\ \A k \in 1..Len(sections) :
                 sections[k].content =
                     TrimBlankLines(SubSeq(lines, NthHeader(lines, k) + 1, SectionEnd(lines, k)))

\* C6: parse returns one section per header-matching line, in document order,
\* the last open one included; the k-th section has the level and title of the
\* k-th header line and its content comes from exactly the lines strictly
\* between that line and the next header-matching line (or the end of input),
\* whatever surrounds the header line (a code fence too).
C6_SectionSequence ==
    (FirstParse /\ file.kind = "text") =>
        LET lines == InputLines
        IN /\ Len(sections) = Cardinality(HeaderIdx(lines))
           /\ \A k \in 1..Len(sections) :
                 LET h == NthHeader(lines, k)
                 IN /\ sections[k].level = LeadingHashes(lines[h])
                    /\ sections[k].title = strip(SubSeq(lines[h], sections[k].level + 1, Len(lines[h])))
                    /\ sections[k].content = strip(join(SubSeq(lines, h + 1, SectionEnd(lines, k))))

\* two sections of different levels, the first with content
C6_Witness ==
    /\ FirstParse
    /\ Len(sections) = 2
    /\ sections[1].content # <<>>
    /\ sections[1].level # sections[2].level

----------------------------------------------------------------------------
(* Properties of the config screen's documents, checked under SpecConfig *)

\* the state right after a handler of the config screen wrote the document
JustSaved == lastOp.op \in {"add", "edit", "delete"} /\ lastOp.ok

\* C3: for a Document built in the config screen (titles non-empty and
\* trimmed, levels in 1..6, any content), parsing the written text yields the
\* same preamble and the same sections in order, each with its title and
\* level and with its content trimmed at its two ends only.
C3_ConstructedRoundTrip ==
    (/\ JustSaved
     /\ \A i \in 1..Len(sections) :
           /\ sections[i].title # <<>>
           /\ strip(sections[i].title) = sections[i].title
           /\ sections[i].level \in 1..MaxLevel) =>
        LET d == parse_text(file.text)
        IN /\ d[1] = preamble
           /\ Len(d[2]) = Len(sections)
           /\ \A i \in 1..Len(sections) :
                 /\ d[2][i].title = sections[i].title
                 /\ d[2][i].level = sections[i].level
                 /\ d[2][i].content = strip(sections[i].content)

\* the block of a section as the specification words it: the content trimmed
ClaimedBlock(section) ==
    Rep(HASH, section.level) \o <<SP>> \o section.title \o <<NL, NL>> \o strip(section.content)

\* C8: the written text is the preamble block (when the preamble is not
\* empty) and one block per section in order ('#' * level, a space, the
\* title, a blank line, the trimmed content), joined by exactly one blank
\* line and ended by a single newline.
C8_SerializedShape ==
    JustSaved =>
        file.text =
            JoinParts((IF preamble # <<>> THEN <<preamble>> ELSE <<>>)
                      \o [i \in 1..Len(sections) |-> ClaimedBlock(sections[i])])
            \o <<NL>>

----------------------------------------------------------------------------
(* Properties of the todo model, store and screen, checked under SpecTodo *)

\* the cycle as the specification words it
ClaimedNext ==
    [PENDING |-> "IN_PROGRESS", IN_PROGRESS |-> "COMPLETED", COMPLETED |-> "PENDING"]

\* the statuses the tracked todo went through, its current one last
Passed == Append(trail.seen, todos[trail.row].status)

\* C9: each toggle moves the toggled task's status one step along pending ->
\* in_progress -> completed -> pending and changes nothing else (not its
\* content, not another task, not the length of the list); three consecutive
\* toggles of a task bring back the status it started from, and a pending
\* task is in_progress and then completed on the way.
C9_StatusCycle ==
    /\ [](trail.row # 0 =>
            /\ \A j \in 1..Len(trail.seen) : Passed[j + 1] = ClaimedNext[Passed[j]]
            /\ Len(trail.seen) = CycleLen =>
                  /\ todos[trail.row].status = trail.seen[1]
                  /\ trail.seen[1] = "PENDING" =>
                        (trail.seen[2] = "IN_PROGRESS" /\ trail.seen[3] = "COMPLETED"))
    /\ [][lastOp'.op = "toggle" =>
            /\ Len(todos') = Len(todos)
            /\ \A i \in 1..Len(todos) :
                  /\ todos'[i].content = todos[i].content
                  /\ i # trail'.row => todos'[i] = todos[i]
            /\ todos'[trail'.row].status = ClaimedNext[todos[trail'.row].status]]_vars

\* a pending task toggled three times in a row, next to another task
C9_Witness ==
    /\ lastOp.op = "toggle"
    /\ Len(todos) = 2
    /\ Len(trail.seen) = CycleLen
    /\ trail.seen[1] = "PENDING"

\* C10: load_todos never raises, whatever the state of the record (no file,
\* unreadable file, bytes that are not JSON, JSON of an unexpected shape), and
\* returns the empty list when the record is missing or corrupt.
C10_LoadNeverRaises ==
    lastOp.op = "todo_mount" =>
        /\ lastOp.ok
        /\ todoFiles[SelectedProject].kind # "json" => todos = <<>>

----------------------------------------------------------------------------
(* Properties of the task store, checked under SpecTodo *)

\* the handlers of the todo screen that call save_todos
SaveOps == {"toggle", "todo_delete", "todo_add", "todo_edit"}

\* the stored record is a JSON object whose "items" is a list of objects that
\* each have a textual "content": well formed but for the statuses
ItemsWithContent(record) ==
    /\ record.kind = "json"
    /\ record.data.t = "object"
    /\ "items" \in DOMAIN record.data.m
    /\ record.data.m.items.t = "array"
    /\ \A i \in 1..Len(record.data.m.items.a) :
          LET item == record.data.m.items.a[i]
          IN /\ item.t = "object"
             /\ "content" \in DOMAIN item.m
             /\ item.m.content.t = "string"

\* the status the claim gives to a stored item: the member whose value the
\* item holds, pending when it holds none of them or no status at all
ClaimedStatus(item) ==
    IF "status" \in DOMAIN item.m /\ item.m.status.t = "string"
       /\ \E n \in TodoStatusNames : TodoStatusValue[n] = item.m.status.s
    THEN CHOOSE n \in TodoStatusNames : TodoStatusValue[n] = item.m.status.s
    ELSE "PENDING"

\* C11: a stored item whose status is none of pending, in_progress and
\* completed, or that has no status, is loaded as a pending task; the other
\* items of the record are loaded with the status they hold.
C11_UnknownStatusPending ==
    (lastOp.op = "todo_mount" /\ ItemsWithContent(todoFiles[SelectedProject])) =>
        LET items == todoFiles[SelectedProject].data.m.items.a
        IN /\ lastOp.ok
           /\ Len(todos) = Len(items)
           /\ \A i \in 1..Len(items) :
                 todos[i] = Todo(items[i].m.content.s, ClaimedStatus(items[i]))

\* C12: a save returns False on every storage failure and never raises (an
\* exception of save_todos is what ends the todo screen inside a handler that
\* saves); it returns True only when the whole record was written.
C12_WriteFailuresAreValues ==
    lastOp.op \in SaveOps =>
        /\ todoScreen.state # "crashed"
        /\ lastOp.ok =>
              todoFiles[SelectedProject]
                 = JsonRecord(JObject([items |-> JArray([i \in 1..Len(todos) |-> to_dict(todos[i])])]))

\* C13: after a save that returned True, load_todos of the same project
\* returns the list that was saved (same length, order, contents and
\* statuses), whatever the record held before; no step changes the record of
\* the other project.
C13_TaskStoreRoundTrip ==
    /\ []((lastOp.op \in SaveOps /\ lastOp.ok) =>
            load_todos(todoFiles[SelectedProject]) = [raised |-> FALSE, todos |-> todos])
    /\ [][\A k \in Projects \ {SelectedProject} : todoFiles'[k] = todoFiles[k]]_vars

\* two tasks saved over a record of another shape, one of them not pending
C13_Witness ==
    /\ lastOp.op \in SaveOps
    /\ lastOp.ok
    /\ Len(todos) = 2
    /\ \E i \in 1..2 : todos[i].status # "PENDING"
    /\ todos[1] # todos[2]

\* the tasks load_todos returns for the record that have the status pending
PendingCount(record) ==
    LET loaded == load_todos(record).todos
    IN Cardinality({i \in 1..Len(loaded) : loaded[i].status = "PENDING"})

\* C17: after the refresh that follows the todo screen the dashboard's Todos column shows the number of the
\* project's tasks whose status is pending: what count_pending_todos returns
\* is that number for a record that loads, and 0 (shown as "-") for a
\* missing record and for one that is not readable JSON.
C17_PendingCount ==
    /\ (dash.state # "none" /\ todoFiles[SelectedProject].kind \in {"missing", "unreadable", "garbage"}) =>
          (dash.state = "shown" /\ dash.todo_count = 0 /\ dash.todo_str = <<"-">>)
    /\ (dash.state = "shown" /\ lastOp.op = "todo_close") =>
          /\ dash.todo_count = PendingCount(todoFiles[SelectedProject])
          /\ dash.todo_str = todo_str(PendingCount(todoFiles[SelectedProject]))

\* the handlers of the todo screen that return without touching the list: the
\* ones that only open the input modal, a cancelled or blank input, and
\* toggle and delete on an empty table
QuietOps == {"todo_open_add", "todo_open_edit", "todo_cancel", "toggle_empty", "todo_delete_empty"}

\* C18: while the todo screen is open and no save has failed, the stored record
\* of the project loads to exactly the in-memory list (after its mount and
\* after every add, edit, delete and toggle); a cancelled or blank add or
\* edit, and a delete or toggle on an empty list, leave the list and the
\* record as they were.
C18_TodoPersistence ==
    /\ []((todoScreen.state = "mounted" /\ nFail = 0) =>
            load_todos(todoFiles[todoScreen.project]) = [raised |-> FALSE, todos |-> todos])
    /\ [][lastOp'.op \in QuietOps => (todos' = todos /\ todoFiles' = todoFiles)]_vars

\* an add or edit and a toggle that saved, then a cancelled or blank input
C18_Witness ==
    /\ todoScreen.state = "mounted"
    /\ nFail = 0
    /\ nOps > 0
    /\ lastOp.op = "todo_cancel"
    /\ Len(todos) = 2
    /\ \E i \in 1..2 : todos[i].status = "IN_PROGRESS"

----------------------------------------------------------------------------
(* Properties of the config screen, checked under SpecConfig *)

\* C19: when save_claude_md fails during an add, an edit or a delete, the
\* config screen's in-memory section list is what it was before the handler
\* ran, so the list and the rows of the table stay consistent.
C19_FailedSaveKeepsSections ==
    /\ [][(lastOp'.op \in {"add", "edit", "delete"} /\ ~lastOp'.ok) => sections' = sections]_vars
    /\ [](screen = "mounted" => table = Rows(sections))

----------------------------------------------------------------------------
(* Properties of the services that run external commands, under SpecTools *)

VcsQueries == {"run_git", "get_recent_commits", "get_open_prs"}
Launchers == TmuxLaunchers \cup {"open_github"}
Failures == {"missing", "nonzero", "hang"}

\* the outcome of the last command the function issued
LastOutcome == issued[Len(issued)].outcome

\* the empty result of a query: None, no commits, no pull requests
EmptyResult(fn) ==
    CASE fn = "run_git" -> None
      [] fn = "get_recent_commits" -> <<>>
      [] fn = "get_open_prs" -> JArray(<<>>)

\* output that the query cannot parse: bytes that are no text; for
\* get_recent_commits text none of whose lines has the four fields; for
\* get_open_prs text that is not JSON
Unparseable(fn, stdout) ==
    \/ stdout.kind = "bytes"
    \/ /\ fn = "get_recent_commits"
       /\ LET lines == splitlines(strip(stdout.text))
          IN \A n \in 1..Len(lines) :
                Cardinality({i \in 1..Len(lines[n]) : lines[n][i] = BAR}) < MaxSplit
    \/ /\ fn = "get_open_prs"
       /\ stdout.kind # "json"

\* C14: whatever the external command does (tool missing, non-zero exit,
\* timeout, output that cannot be parsed), run_git returns None,
\* get_recent_commits returns no commits and get_open_prs returns no pull
\* requests, and none of them raises.
C14_QueriesFailToEmpty ==
    (proc = Idle /\ ret.fn \in VcsQueries) =>
        /\ ~ret.raised
        /\ (LastOutcome.kind \in Failures \/ Unparseable(ret.fn, LastOutcome.stdout)) =>
              ret.value = EmptyResult(ret.fn)

C16_BoundedTimeout ==
    proc.pc # 0 =>
        /\ issued[proc.pc].cmd.timeout # NoTimeout
        /\ ~proc.hung

TmuxOrder == <<"new-window", "split-window", "select-pane", "send-keys">>

\* C20: open_in_tmux issues new-window, split-window, select-pane and
\* send-keys in that order, one at a time, each only after all the earlier
\* ones exited with code 0; the first command that fails is the last one
\* issued and the result is False; the result is True only after all four
\* exited with code 0.
C20_TmuxOrder ==
    LET fn == IF proc = Idle THEN ret.fn ELSE proc.fn
    IN fn = "open_in_tmux" =>
          /\ Len(issued) <= Len(TmuxOrder)
          /\ \A i \in 1..Len(issued) :
                /\ issued[i].cmd.tool = "tmux"
                /\ issued[i].cmd.verb = TmuxOrder[i]
                /\ i < Len(issued) => issued[i].outcome.kind = "exit0"
          /\ proc # Idle => (proc.pc = Len(issued) /\ LastOutcome.kind = "running")
          /\ proc = Idle =>
                /\ ~ret.raised
                /\ ret.value = (Len(issued) = Len(TmuxOrder) /\ LastOutcome.kind = "exit0")
                /\ ret.value = FALSE => LastOutcome.kind \in {"missing", "nonzero"}
                /\ ret.notice = IF ret.value THEN "information" ELSE "error"

\* open_in_tmux stopped by its third command
C20_Witness ==
    /\ proc = Idle
    /\ ret.fn = "open_in_tmux"
    /\ Len(issued) = 3
    /\ LastOutcome.kind = "nonzero"
    /\ ret.value = FALSE

\* the status query of get_git_info exited with 0 and printed at least one
\* line of a changed file
StatusReportsChange ==
    /\ Len(issued) = Len(InfoVerbs)
    /\ LastOutcome.kind = "exit0"
    /\ LastOutcome.stdout.kind = "text"
    /\ \E i \in 1..Len(LastOutcome.stdout.text) : LastOutcome.stdout.text[i] \notin Whitespace

\* C21: get_git_info returns NO_GIT exactly for a path without a ".git"
\* directory, and then runs no git command and leaves every other field
\* empty; for a path with one it returns DIRTY exactly when the status query
\* succeeded and reported a changed file, with uncommitted_count > 0, and
\* CLEAN with uncommitted_count 0 in every other case, a failed or timed-out
\* status query included.
C21_GitStatusClassification ==
    (proc = Idle /\ ret.fn = "get_git_info") =>
        /\ ~ret.raised
        /\ (ret.value.status = "NO_GIT") = (ret.project \notin GitDirs)
        /\ ret.project \notin GitDirs => (issued = <<>> /\ ret.value = NoGitInfo)
        /\ ret.project \in GitDirs =>
              /\ ret.value.status = IF StatusReportsChange THEN "DIRTY" ELSE "CLEAN"
              /\ (ret.value.status = "DIRTY") = (ret.value.uncommitted_count > 0)

----------------------------------------------------------------------------
(* Properties of the dashboard, checked under SpecMove *)

\* the names in a list of projects
NamesOf(projects) == {projects[i] : i \in 1..Len(projects)}

\* C22: a move that reports success has relocated the selected project from
\* the root of the current view to the other root under the same name (also
\* when the other root already held a directory of that name): the name is
\* gone from the current view's list and is in the other view's list; a move
\* that fails relocates nothing and leaves the list as it was; no move changes
\* the view, and the title is "Stash" exactly when the stash is viewed.
C22_MoveBetweenViews ==
    /\ [](app.title = IF app.viewing_stash THEN "Stash" ELSE "Hangar")
    /\ [][lastOp'.op = "move" =>
            LET name == app'.subject
                cur == _get_current_path(app)
                other == OtherRoot(app)
            IN /\ app'.viewing_stash = app.viewing_stash
               /\ lastOp'.ok =>
                     /\ roots'[cur][name] = NoDir
                     /\ roots'[other][name] = roots[cur][name]
                     /\ name \notin NamesOf(app'.projects)
                     /\ name \in NamesOf(_refresh_projects(roots'[other]))
               /\ ~lastOp'.ok =>
                     /\ roots' = roots
                     /\ app'.projects = app.projects]_vars

====
